---- MODULE Spec2Model ----
(***************************************************************************)
(* Extraction orchestration of the Tabular Review App component:           *)
(* documents x columns grid, concurrent fan-out of extraction calls,       *)
(* cooperative cancellation through an AbortController, and the handlers   *)
(* that edit documents, columns and the result store while a run is in     *)
(* flight.                                                                 *)
(*                                                                         *)
(* Scheduling: the component runs on one JavaScript thread.  An event      *)
(* handler runs to completion; the part of processExtraction up to         *)
(* `await Promise.all(promises)` is synchronous (every async task body     *)
(* runs synchronously up to its `await extractColumnData`), so starting a  *)
(* run is one step.  The continuation of a task after its await is one     *)
(* step.  The continuation of processExtraction after Promise.all runs in  *)
(* the same microtask checkpoint as the settlement of the last task (or    *)
(* right after the start handler when the task list is empty), before any  *)
(* other event handler can run, so it belongs to that step.                *)
(***************************************************************************)
EXTENDS Integers, Sequences, FiniteSets, TLC

\* Bounds of the model.
MaxDocs == 2
MaxCols == 2
MaxRuns == 2
MaxPrompt == 1
MaxLen == 2

\* null of abortControllerRef.current and of previewDocId
Null == 0

\* null of selectedCell (a selected cell is <<docId, colId>>)
NoCell == <<>>

\* No file has been written.
NoFile == <<>>

\* MODELS: the ids of the available models.
MODELS == <<"gemini-3-pro-preview", "gemini-2.5-pro-preview", "gemini-2.5-flash">>

\* The prompts a user types for a column: MaxPrompt + 1 different texts.
Prompts == 0..MaxPrompt

\* the fields of a cell that is not there: {...undefined} has none of them
Undefined == 0

VARIABLES
    documents,           \* useState<DocumentFile[]>: sequence of document ids
    columns,             \* useState<Column[]>: sequence of [id, status, prompt]
    results,             \* useState<ExtractionResult>: docId -> colId -> cell
    isProcessing,        \* useState(false)
    abortControllerRef,  \* useRef<AbortController | null>: a run id or Null
    selectedDocIds,      \* useState<Set<string>>
    runs,                \* one record per processExtraction call (its closure)
    nextDocId,           \* ids handed out so far (Math.random ids are fresh)
    nextColId,           \* ids handed out so far (Date.now ids are fresh)
    selectedCell,        \* useState<{docId, colId} | null>: <<docId, colId>> or Null
    previewDocId,        \* useState<string | null>: a document id or Null
    projectName,         \* useState('Untitled Project')
    selectedModel,       \* useState<string>(MODELS[0].id)
    projectFile,         \* the text of the downloaded project file, or NoFile
    csvContent,          \* the text of the downloaded CSV export, or NoFile
    runsAtLoad,          \* processExtraction calls made before the last load
    loadOutcome          \* how the last handleLoadProject call ended

\* The state of the project header and the files the application has written.
projectVars == <<projectName, selectedModel, projectFile, csvContent, runsAtLoad, loadOutcome>>

vars == <<documents, columns, results, isProcessing, abortControllerRef,
          selectedDocIds, runs, nextDocId, nextColId, selectedCell, previewDocId,
          projectName, selectedModel, projectFile, csvContent, runsAtLoad, loadOutcome>>

DocIds == 1..MaxDocs
ColIds == 1..MaxCols
RunIds == 1..MaxRuns

ColumnStatus == {"idle", "extracting", "completed", "error"}
TaskState == {"pending", "settled"}

----------------------------------------------------------------------------
(* Pure helpers *)

\* The ExtractionCell returned by the extractColumnData call of run r.  The
\* answer (value, confidence, quote, page, reasoning) is one whole value; the
\* call that produced it identifies it.  status is absent on a fresh cell.
NewCell(r) == [value |-> r, status |-> "unreviewed"]

\* results[doc.id]?.[col.id] is truthy
HasCell(res, d, c) == d \in DOMAIN res /\ c \in DOMAIN res[d]

\* colsToProcess.some(target => target.id === c.id)
IsTarget(targets, c) == \E i \in 1..Len(targets) : targets[i] = c.id

\* Variant of MarkExtracting: every column is marked, target or not.
MarkExtracting_All(cols, targets) ==
    [i \in 1..Len(cols) |-> [cols[i] EXCEPT !.status = "extracting"]]

\* setColumns(prev => prev.map(c => target ? {...c, status: 'extracting'} : c))
MarkExtracting(cols, targets) ==
    [i \in 1..Len(cols) |->
        IF IsTarget(targets, cols[i])
        THEN [cols[i] EXCEPT !.status = "extracting"] ELSE cols[i]]

\* Variant of MarkCompleted: the column list is rebuilt from the targets,
\* prev.filter(target).map(c => ({...c, status: 'completed'})).
MarkCompleted_OnlyTargets(cols, targets) ==
    LET kept == SelectSeq(cols, LAMBDA c : IsTarget(targets, c))
    IN [i \in 1..Len(kept) |-> [kept[i] EXCEPT !.status = "completed"]]

\* setColumns(prev => prev.map(c => target ? {...c, status: 'completed'} : c))
MarkCompleted(cols, targets) ==
    [i \in 1..Len(cols) |->
        IF IsTarget(targets, cols[i])
        THEN [cols[i] EXCEPT !.status = "completed"] ELSE cols[i]]

\* Variant of ResetExtracting: the reset is missing.
ResetExtracting_Skip(cols) == cols

\* Variant of ResetExtracting: a column left at extracting is flagged error.
ResetExtracting_Error(cols) ==
    [i \in 1..Len(cols) |->
        IF cols[i].status = "extracting"
        THEN [cols[i] EXCEPT !.status = "error"] ELSE cols[i]]

\* setColumns(prev => prev.map(c => c.status === 'extracting' ? idle : c))
ResetExtracting(cols) ==
    [i \in 1..Len(cols) |->
        IF cols[i].status = "extracting"
        THEN [cols[i] EXCEPT !.status = "idle"] ELSE cols[i]]

\* Variant of AllPairs: the document index wraps around like the column index.
AllPairs_WrappedIndex(docs, cols) ==
    [k \in 1..(Len(docs) * Len(cols)) |->
        [doc |-> docs[((k - 1) % Len(docs)) + 1],
         col |-> cols[((k - 1) % Len(cols)) + 1]]]

\* for (doc of docsToProcess) for (col of colsToProcess): every pair in order
AllPairs(docs, cols) ==
    [k \in 1..(Len(docs) * Len(cols)) |->
        [doc |-> docs[((k - 1) \div Len(cols)) + 1],
         col |-> cols[((k - 1) % Len(cols)) + 1]]]

\* Variants of NeedsTask: the planner ignores the store / ignores missing cells.
NeedsTask_Always(res, forceOverwrite, d, c) == TRUE

NeedsTask_OnlyForced(res, forceOverwrite, d, c) == forceOverwrite

\* Variant of NeedsTask: the test of the store is inverted.
NeedsTask_Inverted(res, forceOverwrite, d, c) == forceOverwrite \/ HasCell(res, d, c)

\* if (forceOverwrite || !results[doc.id]?.[col.id]) tasks.push({doc, col})
NeedsTask(res, forceOverwrite, d, c) == forceOverwrite \/ ~HasCell(res, d, c)

PlanTasks(docs, cols, res, forceOverwrite) ==
    SelectSeq(AllPairs(docs, cols),
              LAMBDA t : NeedsTask(res, forceOverwrite, t.doc, t.col))

\* Variant of ShouldMerge: the check after the await is missing.
ShouldMerge_Always(aborted) == TRUE

\* Variant of ShouldMerge: the result of every call is dropped.
ShouldMerge_Never(aborted) == FALSE

\* if (controller.signal.aborted) return;   (after the await)
ShouldMerge(aborted) == ~aborted

\* Variant of MergeCell: the merge is by document, {...prev, [doc.id]: {[col.id]: data}}.
MergeCell_ByDocument(prev, d, c, data) ==
    [x \in DOMAIN prev \cup {d} |->
        IF x = d THEN [y \in {c} |-> data] ELSE prev[x]]

\* setResults(prev => ({...prev, [doc.id]: {...(prev[doc.id] || {}), [col.id]: data}}))
MergeCell(prev, d, c, data) ==
    [x \in DOMAIN prev \cup {d} |->
        IF x = d
        THEN [y \in (IF d \in DOMAIN prev THEN DOMAIN prev[d] ELSE {}) \cup {c} |->
                 IF y = c THEN data ELSE prev[d][y]]
        ELSE prev[x]]

\* const next = {...prev}; ids.forEach(id => delete next[id])
DeleteDocs(prev, ids) == [x \in DOMAIN prev \ ids |-> prev[x]]

\* Variant of DeleteCol: the whole row of a document that holds the column is
\* deleted (delete next[docId]).
DeleteCol_WholeRow(prev, c) ==
    [x \in {d \in DOMAIN prev : c \notin DOMAIN prev[d]} |-> prev[x]]

\* delete docResults[colId] for every document that holds the column
DeleteCol(prev, c) ==
    [x \in DOMAIN prev |-> [y \in DOMAIN prev[x] \ {c} |-> prev[x][y]]]

\* Variant of SelectedCellAfterRemoveDoc: the inspected cell is not cleared.
SelectedCellAfterRemoveDoc_Keep(sel, docId) == sel

\* if (selectedCell?.docId === docId) setSelectedCell(null)
SelectedCellAfterRemoveDoc(sel, docId) ==
    IF sel # NoCell /\ sel[1] = docId THEN NoCell ELSE sel

\* if (previewDocId === docId) setPreviewDocId(null)
PreviewAfterRemoveDoc(pv, docId) == IF pv = docId THEN Null ELSE pv

\* if (selectedCell?.colId === editingColumnId) setSelectedCell(null)
SelectedCellAfterDeleteColumn(sel, colId) ==
    IF sel # NoCell /\ sel[2] = colId THEN NoCell ELSE sel

\* The updater of handleVerifyCell applied to the store prev:
\*   {...prev, [docId]: {...prev[docId], [colId]: {...prev[docId][colId]!, status: 'verified'}}}
\* When prev has no row for docId, prev[docId][colId] throws a TypeError and
\* the update is not applied.  When the row has no cell for colId, the spread
\* of undefined yields no field and the new entry is {status: 'verified'}.
VerifyCell(prev, docId, colId) ==
    IF docId \notin DOMAIN prev
    THEN prev
    ELSE [x \in DOMAIN prev |->
            IF x = docId
            THEN [y \in DOMAIN prev[docId] \cup {colId} |->
                    IF y = colId
                    THEN IF colId \in DOMAIN prev[docId]
                         THEN [prev[docId][colId] EXCEPT !.status = "verified"]
                         ELSE [value |-> Undefined, status |-> "verified"]
                    ELSE prev[docId][y]]
            ELSE prev[x]]

ColumnIdsOf(cols) == [i \in 1..Len(cols) |-> cols[i].id]

SeqRange(s) == {s[i] : i \in 1..Len(s)}

\* Variant of Abort: the previous controller is not aborted.
Abort_Never(rs, ref) == rs

\* if (abortControllerRef.current) abortControllerRef.current.abort()
Abort(rs, ref) ==
    IF ref # Null THEN [rs EXCEPT ![ref].aborted = TRUE] ELSE rs

\* Variant of AllSettled: the run goes on as soon as one task has settled
\* (Promise.race in place of Promise.all).
AllSettled_Any(tasks) == \E k \in 1..Len(tasks) : tasks[k].st # "pending"

AllSettled(tasks) == \A k \in 1..Len(tasks) : tasks[k].st # "pending"

\* Variant of CompletesNormally: the columns are never marked completed.
CompletesNormally_Never(aborted) == FALSE

\* if (!controller.signal.aborted) mark the target columns completed
CompletesNormally(aborted) == ~aborted

\* Variant of IsStillActive: the cleanup does not compare the controllers.
IsStillActive_Always(ref, r) == TRUE

\* if (abortControllerRef.current === controller)
IsStillActive(ref, r) == ref = r

\* Lines 428-441: what the continuation after Promise.all does to the columns.
FinalColumns(cols, run, ref, r) ==
    LET c1 == IF CompletesNormally(run.aborted)
              THEN MarkCompleted(cols, run.colsToProcess) ELSE cols
    IN IF IsStillActive(ref, r) THEN ResetExtracting(c1) ELSE c1

\* Variant of FinalIsProcessing: the flag is cleared by every run that returns.
FinalIsProcessing_Always(proc, ref, r) == FALSE

FinalIsProcessing(proc, ref, r) == IF IsStillActive(ref, r) THEN FALSE ELSE proc

\* Variant of FinalRef: the reference is not cleared.
FinalRef_Keep(ref, r) == ref

FinalRef(ref, r) == IF IsStillActive(ref, r) THEN Null ELSE ref

----------------------------------------------------------------------------
(* A processExtraction call *)

\* A processExtraction call that has returned: nothing of its closure (task
\* list, target columns, controller) can be reached by the program any more,
\* so the record is normalised.
Returned ==
    [aborted |-> TRUE, colsToProcess |-> <<>>, tasks |-> <<>>, finished |-> TRUE]

Init ==
    /\ documents = <<>>
    /\ columns = <<>>
    /\ results = <<>>
    /\ isProcessing = FALSE
    /\ abortControllerRef = Null
    /\ selectedDocIds = {}
    /\ runs = <<>>
    /\ nextDocId = 0
    /\ nextColId = 0
    /\ selectedCell = NoCell
    /\ previewDocId = Null
    /\ projectName = "Untitled Project"
    /\ selectedModel = MODELS[1]
    /\ projectFile = NoFile
    /\ csvContent = NoFile
    /\ runsAtLoad = 0
    /\ loadOutcome = "none"

\* processExtraction(docsToProcess, colsToProcess, forceOverwrite) up to
\* `await Promise.all(promises)`, called from a handler whose closure sees the
\* result store res.  The caller fixes results'.  The first check of
\* controller.signal.aborted (line 409) runs synchronously right after the
\* controller is created and is never true.
ProcessExtraction(docsToProcess, colsToProcess, forceOverwrite, res) ==
    LET r == Len(runs) + 1
        plan == PlanTasks(docsToProcess, colsToProcess, res, forceOverwrite)
        run == [aborted |-> FALSE,
                colsToProcess |-> colsToProcess,
                tasks |-> [k \in 1..Len(plan) |->
                              [doc |-> plan[k].doc, col |-> plan[k].col,
                               st |-> "pending"]],
                finished |-> FALSE]
        started == MarkExtracting(columns, colsToProcess)
    IN /\ Len(runs) < MaxRuns
       /\ IF Len(plan) = 0
          THEN /\ runs' = Append(Abort(runs, abortControllerRef), Returned)
               /\ columns' = FinalColumns(started, run, r, r)
               /\ isProcessing' = FinalIsProcessing(TRUE, r, r)
               /\ abortControllerRef' = FinalRef(r, r)
          ELSE /\ runs' = Append(Abort(runs, abortControllerRef), run)
               /\ columns' = started
               /\ isProcessing' = TRUE
               /\ abortControllerRef' = r

handleRunAnalysis ==
    /\ ~(Len(documents) = 0 \/ Len(columns) = 0)
    /\ ProcessExtraction(documents, ColumnIdsOf(columns), FALSE, results)
    /\ UNCHANGED <<documents, results, selectedDocIds, nextDocId, nextColId,
                   selectedCell, previewDocId, projectVars>>

\* Variant of handleRerunSelected: the run is started without overwrite.
handleRerunSelected_NoOverwrite ==
    /\ ~(Cardinality(selectedDocIds) = 0 \/ Len(columns) = 0)
    /\ LET selectedDocs == SelectSeq(documents, LAMBDA d : d \in selectedDocIds)
       IN ProcessExtraction(selectedDocs, ColumnIdsOf(columns), FALSE, results)
    /\ results' = DeleteDocs(results, selectedDocIds)
    /\ UNCHANGED <<documents, selectedDocIds, nextDocId, nextColId,
                   selectedCell, previewDocId, projectVars>>

\* Variant of handleRerunSelected: the run is started over all documents.
handleRerunSelected_AllDocuments ==
    /\ ~(Cardinality(selectedDocIds) = 0 \/ Len(columns) = 0)
    /\ ProcessExtraction(documents, ColumnIdsOf(columns), TRUE, results)
    /\ results' = DeleteDocs(results, selectedDocIds)
    /\ UNCHANGED <<documents, selectedDocIds, nextDocId, nextColId,
                   selectedCell, previewDocId, projectVars>>

handleRerunSelected ==
    /\ ~(Cardinality(selectedDocIds) = 0 \/ Len(columns) = 0)
    /\ LET selectedDocs == SelectSeq(documents, LAMBDA d : d \in selectedDocIds)
       IN ProcessExtraction(selectedDocs, ColumnIdsOf(columns), TRUE, results)
    /\ results' = DeleteDocs(results, selectedDocIds)
    /\ UNCHANGED <<documents, selectedDocIds, nextDocId, nextColId,
                   selectedCell, previewDocId, projectVars>>

\* Variant of handleStopExtraction: stop also resets the columns right away.
handleStopExtraction_ResetsColumns ==
    /\ abortControllerRef # Null
    /\ runs' = Abort(runs, abortControllerRef)
    /\ isProcessing' = FALSE
    /\ columns' = ResetExtracting(columns)
    /\ UNCHANGED <<documents, results, abortControllerRef,
                   selectedDocIds, nextDocId, nextColId,
                   selectedCell, previewDocId, projectVars>>

handleStopExtraction ==
    /\ abortControllerRef # Null
    /\ runs' = Abort(runs, abortControllerRef)
    /\ isProcessing' = FALSE
    /\ UNCHANGED <<documents, columns, results, abortControllerRef,
                   selectedDocIds, nextDocId, nextColId,
                   selectedCell, previewDocId, projectVars>>

\* Variant of TaskSettles: the failure is not caught, Promise.all rejects and
\* processExtraction runs its finally block while calls are outstanding.
TaskSettles_FailFast(r, k, ok) ==
    LET run == runs[r]
        t == run.tasks[k]
        merges == ok /\ ShouldMerge(run.aborted)
        tasks2 == [run.tasks EXCEPT ![k].st = "settled"]
    IN /\ t.st = "pending"
       /\ results' = IF merges
                     THEN MergeCell(results, t.doc, t.col, NewCell(r))
                     ELSE results
       /\ IF AllSettled(tasks2) \/ ~ok
          THEN /\ runs' = [runs EXCEPT ![r] = Returned]
               /\ columns' = IF IsStillActive(abortControllerRef, r)
                             THEN ResetExtracting(columns) ELSE columns
               /\ isProcessing' = FinalIsProcessing(isProcessing, abortControllerRef, r)
               /\ abortControllerRef' = FinalRef(abortControllerRef, r)
          ELSE /\ runs' = [runs EXCEPT ![r].tasks = tasks2]
               /\ UNCHANGED <<columns, isProcessing, abortControllerRef>>
       /\ UNCHANGED <<documents, selectedDocIds, nextDocId, nextColId,
                   selectedCell, previewDocId, projectVars>>

\* Variant of TaskSettles: the cell of a document or column that is no longer
\* listed is not merged.
TaskSettles_SkipsDeleted(r, k, ok) ==
    LET run == runs[r]
        t == run.tasks[k]
        listed == /\ \E i \in 1..Len(documents) : documents[i] = t.doc
                  /\ \E i \in 1..Len(columns) : columns[i].id = t.col
        merges == ok /\ ShouldMerge(run.aborted) /\ listed
        tasks2 == [run.tasks EXCEPT ![k].st = "settled"]
    IN /\ t.st = "pending"
       /\ results' = IF merges
                     THEN MergeCell(results, t.doc, t.col, NewCell(r))
                     ELSE results
       /\ IF AllSettled(tasks2)
          THEN /\ runs' = [runs EXCEPT ![r] = Returned]
               /\ columns' = FinalColumns(columns, run, abortControllerRef, r)
               /\ isProcessing' = FinalIsProcessing(isProcessing, abortControllerRef, r)
               /\ abortControllerRef' = FinalRef(abortControllerRef, r)
          ELSE /\ runs' = [runs EXCEPT ![r].tasks = tasks2]
               /\ UNCHANGED <<columns, isProcessing, abortControllerRef>>
       /\ UNCHANGED <<documents, selectedDocIds, nextDocId, nextColId,
                      selectedCell, previewDocId, projectVars>>

\* The continuation of task k of run r after `await extractColumnData(...)`:
\* ok = the call resolved with a cell, ~ok = it threw (caught and logged).
\* When it is the last task of the run to settle, the continuation of
\* processExtraction after Promise.all follows in the same step.
TaskSettles(r, k, ok) ==
    LET run == runs[r]
        t == run.tasks[k]
        merges == ok /\ ShouldMerge(run.aborted)
        tasks2 == [run.tasks EXCEPT ![k].st = "settled"]
    IN /\ t.st = "pending"
       /\ results' = IF merges
                     THEN MergeCell(results, t.doc, t.col, NewCell(r))
                     ELSE results
       /\ IF AllSettled(tasks2)
          THEN /\ runs' = [runs EXCEPT ![r] = Returned]
               /\ columns' = FinalColumns(columns, run, abortControllerRef, r)
               /\ isProcessing' = FinalIsProcessing(isProcessing, abortControllerRef, r)
               /\ abortControllerRef' = FinalRef(abortControllerRef, r)
          ELSE /\ runs' = [runs EXCEPT ![r].tasks = tasks2]
               /\ UNCHANGED <<columns, isProcessing, abortControllerRef>>
       /\ UNCHANGED <<documents, selectedDocIds, nextDocId, nextColId,
                   selectedCell, previewDocId, projectVars>>

TaskSucceeds == \E r \in 1..Len(runs) : \E k \in 1..Len(runs[r].tasks) :
                    TaskSettles(r, k, TRUE)

TaskFails == \E r \in 1..Len(runs) : \E k \in 1..Len(runs[r].tasks) :
                    TaskSettles(r, k, FALSE)

----------------------------------------------------------------------------
(* Documents, columns, selection *)

\* processUploadedFiles: the converted files are appended with fresh ids.
processUploadedFiles ==
    /\ nextDocId < MaxDocs
    /\ \E n \in 1..(MaxDocs - nextDocId) :
          /\ documents' = documents \o [i \in 1..n |-> nextDocId + i]
          /\ nextDocId' = nextDocId + n
    /\ UNCHANGED <<columns, results, isProcessing, abortControllerRef,
                   selectedDocIds, runs, nextColId,
                   selectedCell, previewDocId, projectVars>>

\* handleSaveColumn with no column being edited: a new idle column is appended.
handleSaveColumn ==
    /\ nextColId < MaxCols
    /\ columns' = Append(columns, [id |-> nextColId + 1, status |-> "idle", prompt |-> 0])
    /\ nextColId' = nextColId + 1
    /\ UNCHANGED <<documents, results, isProcessing, abortControllerRef,
                   selectedDocIds, runs, nextDocId,
                   selectedCell, previewDocId, projectVars>>

\* handleSaveColumn while a listed column is being edited (editingColumnId):
\* prev.map(c => c.id === editingColumnId ? {...c, ...colDef} : c).
handleSaveColumnEditing ==
    /\ \E i \in 1..Len(columns) : \E p \in Prompts :
          /\ p # columns[i].prompt
          /\ columns' = [columns EXCEPT ![i].prompt = p]
    /\ UNCHANGED <<documents, results, isProcessing, abortControllerRef,
                   selectedDocIds, runs, nextDocId, nextColId,
                   selectedCell, previewDocId, projectVars>>

\* handleDeleteColumn for the column whose menu is open (editingColumnId).
handleDeleteColumn ==
    /\ \E i \in 1..Len(columns) :
          LET editingColumnId == columns[i].id IN
          /\ columns' = SelectSeq(columns, LAMBDA c : c.id # editingColumnId)
          /\ results' = DeleteCol(results, editingColumnId)
          /\ selectedCell' = SelectedCellAfterDeleteColumn(selectedCell, editingColumnId)
    /\ UNCHANGED <<documents, isProcessing, abortControllerRef,
                   selectedDocIds, runs, nextDocId, nextColId, previewDocId, projectVars>>

\* Variant of handleRemoveDoc: removing a document also stops the run.
handleRemoveDoc_Cancels ==
    /\ \E i \in 1..Len(documents) :
          LET docId == documents[i] IN
          /\ documents' = SelectSeq(documents, LAMBDA d : d # docId)
          /\ results' = DeleteDocs(results, {docId})
          /\ selectedCell' = SelectedCellAfterRemoveDoc(selectedCell, docId)
          /\ previewDocId' = PreviewAfterRemoveDoc(previewDocId, docId)
    /\ runs' = Abort(runs, abortControllerRef)
    /\ isProcessing' = FALSE
    /\ UNCHANGED <<columns, abortControllerRef,
                   selectedDocIds, nextDocId, nextColId, projectVars>>

handleRemoveDoc ==
    /\ \E i \in 1..Len(documents) :
          LET docId == documents[i] IN
          /\ documents' = SelectSeq(documents, LAMBDA d : d # docId)
          /\ results' = DeleteDocs(results, {docId})
          /\ selectedCell' = SelectedCellAfterRemoveDoc(selectedCell, docId)
          /\ previewDocId' = PreviewAfterRemoveDoc(previewDocId, docId)
    /\ UNCHANGED <<columns, isProcessing, abortControllerRef,
                   selectedDocIds, runs, nextDocId, nextColId, projectVars>>

\* Variant of handleClearAll: the active run is not cancelled.
handleClearAll_NoAbort ==
    /\ isProcessing' = FALSE
    /\ documents' = <<>>
    /\ columns' = <<>>
    /\ results' = <<>>
    /\ selectedCell' = NoCell
    /\ previewDocId' = Null
    /\ projectName' = "Untitled Project"
    /\ UNCHANGED <<runs, abortControllerRef, selectedDocIds, nextDocId, nextColId,
                   selectedModel, projectFile, csvContent, runsAtLoad, loadOutcome>>

\* handleClearAll, confirmed (or not asked because the store is empty).
handleClearAll ==
    /\ runs' = Abort(runs, abortControllerRef)
    /\ isProcessing' = FALSE
    /\ documents' = <<>>
    /\ columns' = <<>>
    /\ results' = <<>>
    /\ selectedCell' = NoCell
    /\ previewDocId' = Null
    /\ projectName' = "Untitled Project"
    /\ UNCHANGED <<abortControllerRef, selectedDocIds, nextDocId, nextColId,
                   selectedModel, projectFile, csvContent, runsAtLoad, loadOutcome>>

handleToggleDocSelection ==
    /\ \E i \in 1..Len(documents) :
          LET docId == documents[i] IN
          selectedDocIds' = IF docId \in selectedDocIds
                            THEN selectedDocIds \ {docId}
                            ELSE selectedDocIds \cup {docId}
    /\ UNCHANGED <<documents, columns, results, isProcessing,
                   abortControllerRef, runs, nextDocId, nextColId,
                   selectedCell, previewDocId, projectVars>>

\* handleToggleAllDocSelection: the sizes are compared, not the members.
handleToggleAllDocSelection ==
    /\ selectedDocIds' = IF Cardinality(selectedDocIds) = Len(documents)
                          THEN {}
                          ELSE {documents[i] : i \in 1..Len(documents)}
    /\ UNCHANGED <<documents, columns, results, isProcessing,
                   abortControllerRef, runs, nextDocId, nextColId,
                   selectedCell, previewDocId, projectVars>>

\* handleCellClick(docId, colId) on a cell of the grid: the cell is inspected
\* only when the store holds it.
handleCellClick ==
    /\ \E i \in 1..Len(documents) : \E j \in 1..Len(columns) :
          LET docId == documents[i]
              colId == columns[j].id
          IN /\ HasCell(results, docId, colId)
             /\ selectedCell' = <<docId, colId>>
             /\ previewDocId' = Null
    /\ UNCHANGED <<documents, columns, results, isProcessing, abortControllerRef,
                   selectedDocIds, runs, nextDocId, nextColId, projectVars>>

\* handleDocumentClick(docId) on a row of the grid.
handleDocumentClick ==
    /\ \E i \in 1..Len(documents) :
          /\ selectedCell' = NoCell
          /\ previewDocId' = documents[i]
    /\ UNCHANGED <<documents, columns, results, isProcessing, abortControllerRef,
                   selectedDocIds, runs, nextDocId, nextColId, projectVars>>

handleVerifyCell ==
    /\ selectedCell # NoCell
    /\ results' = VerifyCell(results, selectedCell[1], selectedCell[2])
    /\ UNCHANGED <<documents, columns, isProcessing, abortControllerRef,
                   selectedDocIds, runs, nextDocId, nextColId,
                   selectedCell, previewDocId, projectVars>>

Next ==
    \/ handleRunAnalysis
    \/ handleRerunSelected
    \/ handleStopExtraction
    \/ TaskSucceeds
    \/ TaskFails
    \/ processUploadedFiles
    \/ handleSaveColumn
    \/ handleDeleteColumn
    \/ handleRemoveDoc
    \/ handleClearAll
    \/ handleToggleDocSelection

Spec == Init /\ [][Next]_vars

\* The inspection of cells and documents on top of runs and re-runs whose
\* extraction calls all resolve and that are superseded but never stopped.
NextUI ==
    \/ handleRunAnalysis
    \/ handleRerunSelected
    \/ TaskSucceeds
    \/ processUploadedFiles
    \/ handleSaveColumn
    \/ handleDeleteColumn
    \/ handleRemoveDoc
    \/ handleClearAll
    \/ handleToggleDocSelection
    \/ handleCellClick
    \/ handleDocumentClick
    \/ handleVerifyCell

SpecUI == Init /\ [][NextUI]_vars

\* processExtraction(docsToProcess, colsToProcess, forceOverwrite) called with
\* the listed documents of ds and the listed columns of cs.
StartOn(ds, cs, forceOverwrite) ==
    /\ ProcessExtraction(SelectSeq(documents, LAMBDA d : d \in ds),
                         SelectSeq(ColumnIdsOf(columns), LAMBDA c : c \in cs),
                         forceOverwrite, results)
    /\ UNCHANGED <<documents, results, selectedDocIds, nextDocId, nextColId,
                   selectedCell, previewDocId, projectVars>>

\* processExtraction as a function of its arguments: any sub-list of the
\* documents, any sub-list of the columns, either value of forceOverwrite.
processExtraction ==
    \E ds \in SUBSET SeqRange(documents) :
        \E cs \in SUBSET SeqRange(ColumnIdsOf(columns)) :
            \E forceOverwrite \in BOOLEAN : StartOn(ds, cs, forceOverwrite)

\* The run controller under every argument of processExtraction.
NextStart ==
    \/ processUploadedFiles
    \/ handleSaveColumn
    \/ processExtraction
    \/ handleStopExtraction
    \/ TaskSucceeds
    \/ TaskFails
    \/ handleDeleteColumn
    \/ handleRemoveDoc

SpecStart == Init /\ [][NextStart]_vars

----------------------------------------------------------------------------
\* Runs over all documents and columns while the user creates, edits and
\* deletes columns.
NextColumns ==
    \/ processUploadedFiles
    \/ handleSaveColumn
    \/ handleSaveColumnEditing
    \/ handleDeleteColumn
    \/ handleRunAnalysis
    \/ handleStopExtraction
    \/ TaskSucceeds
    \/ TaskFails

SpecColumns == Init /\ [][NextColumns]_vars

----------------------------------------------------------------------------
(* Project files: JSON.stringify(project) and JSON.parse(text).  A JSON
   object is the sequence of its <<key, value>> members, a JSON array the
   sequence of its elements.  A property whose value is undefined is not
   written, and a property that is not in the text is undefined after parse. *)

\* The elements of a set of ids in ascending order (the order of the members
\* in the text; JSON.parse does not depend on it).
RECURSIVE SortedSeq(_)
SortedSeq(S) ==
    IF S = {} THEN <<>>
    ELSE LET m == CHOOSE x \in S : \A y \in S : x <= y
         IN <<m>> \o SortedSeq(S \ {m})

\* obj.hasOwnProperty(key) and obj[key] of a parsed JSON object.
HasMember(obj, key) == \E i \in 1..Len(obj) : obj[i][1] = key
Member(obj, key) == obj[CHOOSE i \in 1..Len(obj) : obj[i][1] = key][2]

\* Variant of StringifyCell: the review status is not written.
StringifyCell_NoStatus(cell) ==
    IF cell.value # Undefined THEN << <<"value", cell.value>> >> ELSE <<>>

\* JSON.stringify of an ExtractionCell: `value` is missing from a cell made
\* by handleVerifyCell out of nothing, `status` from a cell never reviewed.
StringifyCell(cell) ==
    (IF cell.value # Undefined THEN << <<"value", cell.value>> >> ELSE <<>>) \o
    (IF cell.status # "unreviewed" THEN << <<"status", cell.status>> >> ELSE <<>>)

ParseCell(json) ==
    [value  |-> IF HasMember(json, "value") THEN Member(json, "value") ELSE Undefined,
     status |-> IF HasMember(json, "status") THEN Member(json, "status")
                ELSE "unreviewed"]

StringifyRow(row) ==
    LET keys == SortedSeq(DOMAIN row)
    IN [i \in 1..Len(keys) |-> <<keys[i], StringifyCell(row[keys[i]])>>]

ParseRow(json) ==
    [c \in {json[i][1] : i \in 1..Len(json)} |-> ParseCell(Member(json, c))]

StringifyResults(res) ==
    LET keys == SortedSeq(DOMAIN res)
    IN [i \in 1..Len(keys) |-> <<keys[i], StringifyRow(res[keys[i]])>>]

ParseResults(json) ==
    [d \in {json[i][1] : i \in 1..Len(json)} |-> ParseRow(Member(json, d))]

StringifyColumn(col) ==
    << <<"id", col.id>>, <<"prompt", col.prompt>>, <<"status", col.status>> >>

ParseColumn(json) ==
    [id |-> Member(json, "id"), status |-> Member(json, "status"),
     prompt |-> Member(json, "prompt")]

\* JSON.stringify(project, null, 2) of saveProject.
StringifyProject(project) ==
    << <<"version", project.version>>,
       <<"name", project.name>>,
       <<"columns", [i \in 1..Len(project.columns) |->
                        StringifyColumn(project.columns[i])]>>,
       <<"documents", [i \in 1..Len(project.documents) |->
                          << <<"id", project.documents[i]>> >>]>>,
       <<"results", StringifyResults(project.results)>>,
       <<"selectedModel", project.selectedModel>> >>

\* JSON.parse(text) of loadProject.
ParseProject(text) ==
    [version |-> Member(text, "version"),
     name |-> Member(text, "name"),
     columns |-> [i \in 1..Len(Member(text, "columns")) |->
                     ParseColumn(Member(text, "columns")[i])],
     documents |-> [i \in 1..Len(Member(text, "documents")) |->
                       Member(Member(text, "documents")[i], "id")],
     results |-> ParseResults(Member(text, "results")),
     selectedModel |-> IF HasMember(text, "selectedModel")
                       THEN Member(text, "selectedModel") ELSE ""]

\* validateProject of the parsed text: the members it tests are there.
validateProject(text) ==
    /\ HasMember(text, "version") /\ HasMember(text, "name")
    /\ HasMember(text, "columns") /\ HasMember(text, "documents")
    /\ HasMember(text, "results")

\* The SavedProject that handleSaveProject builds from the state.
SavedProject ==
    [version |-> 1, name |-> projectName, columns |-> columns,
     documents |-> documents, results |-> results,
     selectedModel |-> selectedModel]

\* handleSaveProject: the project is written to the downloaded file.
handleSaveProject ==
    /\ projectFile' = StringifyProject(SavedProject)
    /\ UNCHANGED <<documents, columns, results, isProcessing, abortControllerRef,
                   selectedDocIds, runs, nextDocId, nextColId,
                   selectedCell, previewDocId,
                   projectName, selectedModel, csvContent, runsAtLoad, loadOutcome>>

\* The `if (project)` branch of handleLoadProject: the state is replaced by
\* the project; a run in flight is not touched.
InstallProject(project) ==
    /\ projectName' = project.name
    /\ columns' = project.columns
    /\ documents' = project.documents
    /\ results' = project.results
    /\ selectedModel' = IF project.selectedModel # ""
                         THEN project.selectedModel ELSE selectedModel
    /\ selectedCell' = NoCell
    /\ previewDocId' = Null
    /\ selectedDocIds' = {}
    /\ runsAtLoad' = Len(runs)
    /\ loadOutcome' = "loaded"
    /\ UNCHANGED <<isProcessing, abortControllerRef, runs, nextDocId, nextColId,
                   projectFile, csvContent>>

\* handleLoadProject with the downloaded file picked.
handleLoadProject ==
    /\ projectFile # NoFile
    /\ validateProject(projectFile)
    /\ InstallProject(ParseProject(projectFile))

\* The text cut in its n-th member, after the key.
Truncated(text, n) == SubSeq(text, 1, n - 1) \o << <<text[n][1]>> >>

\* The text without the member `key`.
Without(text, key) == SelectSeq(text, LAMBDA m : m[1] # key)

\* The files the user can pick in the dialog of loadProject: none (the
\* dialog is cancelled), the downloaded project file, a copy of it whose
\* end is lost, or a copy in which one member is missing.
PickedFiles ==
    {NoFile} \cup
    (IF projectFile = NoFile THEN {}
     ELSE {projectFile} \cup
          {Truncated(projectFile, n) : n \in 1..Len(projectFile)} \cup
          {Without(projectFile, m[1]) : m \in {projectFile[i] : i \in 1..Len(projectFile)}})

\* JSON.parse(text) returns: every member of the object has its value.
JSONParses(text) == \A i \in 1..Len(text) : Len(text[i]) = 2

\* What the promise of loadProject() settles with when `file` is picked.
LoadResult(file) ==
    IF file = NoFile THEN "null"
    ELSE IF ~JSONParses(file) THEN "rejected"
    ELSE IF ~validateProject(file) THEN "rejected"
    ELSE "project"

\* hasWork of handleLoadProject.
HasWork == Len(documents) > 0 \/ Len(columns) > 0 \/ DOMAIN results # {}

\* A handleLoadProject call that installs nothing; `outcome` says why.
LoadNothing(outcome) ==
    /\ loadOutcome' = outcome
    /\ UNCHANGED <<documents, columns, results, isProcessing, abortControllerRef,
                   selectedDocIds, runs, nextDocId, nextColId,
                   selectedCell, previewDocId,
                   projectName, selectedModel, projectFile, csvContent, runsAtLoad>>

\* Variant of LoadFailed: the interface state is reset before the alert.
LoadFailed_ResetsSelection ==
    /\ loadOutcome' = "failed"
    /\ selectedDocIds' = {}
    /\ UNCHANGED <<documents, columns, results, isProcessing, abortControllerRef,
                   runs, nextDocId, nextColId, selectedCell, previewDocId,
                   projectName, selectedModel, projectFile, csvContent, runsAtLoad>>

\* The catch branch of handleLoadProject: the error is logged and the alert
\* is shown.
LoadFailed == LoadNothing("failed")

\* handleLoadProject when `file` is picked in the dialog and the confirmation
\* (asked only if there is work) is answered with `confirmed`.
LoadProject(file, confirmed) ==
    IF HasWork /\ ~confirmed THEN LoadNothing("declined")
    ELSE IF LoadResult(file) = "null" THEN LoadNothing("cancelled")
    ELSE IF LoadResult(file) = "rejected" THEN LoadFailed
    ELSE InstallProject(ParseProject(file))

\* handleLoadProject with any file picked.
handleLoadProjectPicked ==
    \/ HasWork /\ LoadProject(NoFile, FALSE)
    \/ \E file \in PickedFiles : LoadProject(file, TRUE)

\* Runs whose calls all resolve, and the saving and loading of the project.
NextProject ==
    \/ processUploadedFiles
    \/ handleSaveColumn
    \/ handleRunAnalysis
    \/ TaskSucceeds
    \/ handleSaveProject
    \/ handleLoadProject

SpecProject == Init /\ [][NextProject]_vars

\* The names the user types into the project name field.
ProjectNames == {"Untitled Project", "Side Letters"}

\* The rows a store can hold for a document once runs have settled: for each
\* column no cell, a cell, a verified cell, or the cell without value that
\* handleVerifyCell makes out of nothing.
SettledRows ==
    UNION {[C -> {[value |-> 1, status |-> "unreviewed"],
                  [value |-> 1, status |-> "verified"],
                  [value |-> Undefined, status |-> "verified"]}] :
           C \in SUBSET ColIds}

\* A project at rest, as runs, review, removals and renaming leave it: any
\* listed documents (all selected), columns that are new or were edited and
\* completed, any store over the ids.
InitRoundTrip ==
    /\ documents \in {[i \in 1..n |-> i] : n \in 0..MaxDocs}
    /\ \E m \in 0..MaxCols : \E edited \in SUBSET (1..m) :
          columns = [i \in 1..m |->
                       IF i \in edited
                       THEN [id |-> i, status |-> "completed", prompt |-> MaxPrompt]
                       ELSE [id |-> i, status |-> "idle", prompt |-> 0]]
    /\ results \in UNION {[D -> SettledRows] : D \in SUBSET DocIds}
    /\ projectName \in ProjectNames
    /\ selectedModel \in {MODELS[i] : i \in 1..Len(MODELS)}
    /\ selectedDocIds = {documents[i] : i \in 1..Len(documents)}
    /\ isProcessing = FALSE
    /\ abortControllerRef = Null
    /\ runs = <<>>
    /\ nextDocId = Len(documents)
    /\ nextColId = Len(columns)
    /\ selectedCell = NoCell
    /\ previewDocId = Null
    /\ projectFile = NoFile
    /\ csvContent = NoFile
    /\ runsAtLoad = 0
    /\ loadOutcome = "none"

NextRoundTrip ==
    \/ handleSaveProject
    \/ handleLoadProject
    \/ handleClearAll

SpecRoundTrip == InitRoundTrip /\ [][NextRoundTrip]_vars

----------------------------------------------------------------------------
(* CSV export.  A text is the sequence of its characters; the name of a
   document or of a column is a text of two characters that are neither a
   quote, a comma nor a line break. *)

Quote == "\""
Comma == ","
LineBreak == "\n"

\* The characters of the values the extraction returns.
CsvChars == {"a", Comma, Quote}

\* The values the extraction returns: the texts of at most MaxLen characters.
CsvValues == UNION {[1..n -> CsvChars] : n \in 0..MaxLen}

DocName(docId) == <<"d", ToString(docId)>>
ColumnName(col) == <<"c", ToString(col.id)>>

\* Variant of EscapeQuotes: the value is written as it is.
EscapeQuotes_None(value) == value

\* cell.value.replace(/"/g, '""')
RECURSIVE EscapeQuotes(_)
EscapeQuotes(value) ==
    IF value = <<>> THEN <<>>
    ELSE (IF Head(value) = Quote THEN <<Quote, Quote>> ELSE <<Head(value)>>)
         \o EscapeQuotes(Tail(value))

\* `"${val}"`
CsvField(value) == <<Quote>> \o EscapeQuotes(value) \o <<Quote>>

\* const cell = results[doc.id]?.[col.id]; val = cell ? escaped value : ""
CsvCell(res, docId, colId) ==
    IF HasCell(res, docId, colId) THEN CsvField(res[docId][colId].value)
    ELSE <<Quote>> \o <<>> \o <<Quote>>

\* texts.join(sep)
RECURSIVE Join(_, _)
Join(texts, sep) ==
    IF texts = <<>> THEN <<>>
    ELSE IF Len(texts) = 1 THEN texts[1]
    ELSE texts[1] \o sep \o Join(Tail(texts), sep)

\* ['Document Name', ...columns.map(c => c.name)].join(",")
CsvHeader ==
    Join(<< <<"Document Name">> >> \o
         [j \in 1..Len(columns) |-> ColumnName(columns[j])], <<Comma>>)

\* [doc.name, ...cells].join(",")
CsvRow(docId) ==
    Join(<<DocName(docId)>> \o
         [j \in 1..Len(columns) |-> CsvCell(results, docId, columns[j].id)],
         <<Comma>>)

\* [headerRow.join(","), ...rows].join("\n")
CsvText ==
    Join(<<CsvHeader>> \o [i \in 1..Len(documents) |-> CsvRow(documents[i])],
         <<LineBreak>>)

\* handleExportCSV: nothing is written when no document is listed.
handleExportCSV ==
    /\ Len(documents) # 0
    /\ csvContent' = CsvText
    /\ UNCHANGED <<documents, columns, results, isProcessing, abortControllerRef,
                   selectedDocIds, runs, nextDocId, nextColId,
                   selectedCell, previewDocId,
                   projectName, selectedModel, projectFile, runsAtLoad,
                   loadOutcome>>

\* The rows a store holds for a document after extraction: for each column no
\* cell or the cell with the value that was returned.
ExtractedRows ==
    UNION {[C -> [value : CsvValues, status : {"unreviewed"}]] : C \in SUBSET ColIds}

\* A grid at rest: listed documents and columns, and for every listed
\* document no row or a row of extracted cells of listed columns.
InitCSV ==
    /\ documents \in {[i \in 1..n |-> i] : n \in 0..MaxDocs}
    /\ columns \in {[j \in 1..m |-> [id |-> j, status |-> "completed", prompt |-> 0]] :
                      m \in 0..MaxCols}
    /\ results \in UNION {[D -> ExtractedRows] : D \in SUBSET DocIds}
    /\ \A d \in DOMAIN results :
          /\ d <= Len(documents)
          /\ \A c \in DOMAIN results[d] : c <= Len(columns)
    /\ projectName = "Untitled Project"
    /\ selectedModel = MODELS[1]
    /\ selectedDocIds = {}
    /\ isProcessing = FALSE
    /\ abortControllerRef = Null
    /\ runs = <<>>
    /\ nextDocId = Len(documents)
    /\ nextColId = Len(columns)
    /\ selectedCell = NoCell
    /\ previewDocId = Null
    /\ projectFile = NoFile
    /\ csvContent = NoFile
    /\ runsAtLoad = 0
    /\ loadOutcome = "none"

NextCSV ==
    \/ handleExportCSV

SpecCSV == InitCSV /\ [][NextCSV]_vars

\* The Run Analysis button is rendered only while isProcessing is false
\* (lines 712-739): a run started from it supersedes no active run.
handleRunAnalysisWhenIdle == ~isProcessing /\ handleRunAnalysis

\* Runs that nothing disturbs: no stop, no supersession, no removal, and every
\* extraction call resolves with a cell.  Documents and columns may be added,
\* columns edited and documents selected meanwhile.
NextFull ==
    \/ processUploadedFiles
    \/ handleSaveColumn
    \/ handleSaveColumnEditing
    \/ handleToggleDocSelection
    \/ handleRunAnalysisWhenIdle
    \/ TaskSucceeds

\* Every extraction call that is outstanding resolves at some time.
SpecFull == Init /\ [][NextFull]_vars /\ WF_vars(TaskSucceeds)

\* The extraction call of task k of run r returns or fails.
TaskReturns(r, k) ==
    /\ r <= Len(runs)
    /\ k <= Len(runs[r].tasks)
    /\ \E ok \in BOOLEAN : TaskSettles(r, k, ok)

\* Runs that are started, stopped, superseded and cleared, with calls that
\* resolve or fail.
NextTerminates ==
    \/ processUploadedFiles
    \/ handleSaveColumn
    \/ handleRunAnalysis
    \/ handleStopExtraction
    \/ handleClearAll
    \/ TaskSucceeds
    \/ TaskFails

\* Every extraction call returns or fails at some time.
SpecTerminates ==
    /\ Init
    /\ [][NextTerminates]_vars
    /\ \A r \in RunIds : \A k \in 1..(MaxDocs * MaxCols) : WF_vars(TaskReturns(r, k))

\* The selection of documents for a re-run, while documents come and go and
\* the project is saved and loaded.
NextSelection ==
    \/ processUploadedFiles
    \/ handleSaveColumn
    \/ handleToggleDocSelection
    \/ handleToggleAllDocSelection
    \/ handleRemoveDoc
    \/ handleClearAll
    \/ handleSaveProject
    \/ handleLoadProject

SpecSelection == Init /\ [][NextSelection]_vars

\* A project after its first run: some documents, some columns, a cell at
\* every pair, nothing selected, nothing saved.
InitLoad ==
    /\ documents \in {[i \in 1..n |-> i] : n \in 1..MaxDocs}
    /\ columns \in {[i \in 1..m |-> [id |-> i, status |-> "completed", prompt |-> 0]] :
                       m \in 1..MaxCols}
    /\ results = [d \in 1..Len(documents) |-> [c \in 1..Len(columns) |-> NewCell(1)]]
    /\ projectName = "Side Letters"
    /\ selectedModel \in {MODELS[1], MODELS[2]}
    /\ selectedDocIds = {}
    /\ isProcessing = FALSE
    /\ abortControllerRef = Null
    /\ runs = <<>>
    /\ nextDocId = Len(documents)
    /\ nextColId = Len(columns)
    /\ selectedCell = NoCell
    /\ previewDocId = Null
    /\ projectFile = NoFile
    /\ csvContent = NoFile
    /\ runsAtLoad = 0
    /\ loadOutcome = "none"

\* Projects that are saved and loaded, with files that are damaged and
\* dialogs that are cancelled or declined.
NextLoad ==
    \/ handleToggleDocSelection
    \/ handleRemoveDoc
    \/ handleClearAll
    \/ handleSaveProject
    \/ handleLoadProjectPicked

SpecLoad == InitLoad /\ [][NextLoad]_vars

TypeOK ==
    /\ \A i \in 1..Len(documents) : documents[i] \in DocIds
    /\ \A i \in 1..Len(columns) :
          /\ columns[i].id \in ColIds /\ columns[i].status \in ColumnStatus
          /\ columns[i].prompt \in Prompts
    /\ isProcessing \in BOOLEAN
    /\ abortControllerRef \in {Null} \cup (1..Len(runs))
    /\ Len(runs) <= MaxRuns
    /\ \A r \in 1..Len(runs) : \A k \in 1..Len(runs[r].tasks) :
          runs[r].tasks[k].st \in TaskState

----------------------------------------------------------------------------
(* Vocabulary of the properties *)

\* The keys at which the store holds the cell returned to run r.
CellsOf(res, r) ==
    {p \in DocIds \X ColIds : HasCell(res, p[1], p[2]) /\ res[p[1]][p[2]].value = r}

\* Every (key, cell) of the store.
Entries(res) ==
    {e \in DocIds \X ColIds \X RunIds :
        HasCell(res, e[1], e[2]) /\ res[e[1]][e[2]].value = e[3]}

Unfinished(r) == ~runs[r].finished

HasPending(r) == \E k \in 1..Len(runs[r].tasks) : runs[r].tasks[k].st = "pending"

PendingKeys(r) ==
    {<<runs[r].tasks[k].doc, runs[r].tasks[k].col>> :
        k \in {j \in 1..Len(runs[r].tasks) : runs[r].tasks[j].st = "pending"}}

\* Run r executes its final step (lines 428-441) in this step.
Finishes(r) == ~runs[r].finished /\ runs'[r].finished

\* A processExtraction call is made in this step.
Starts == Len(runs') = Len(runs) + 1

\* C1: Cancellation discards.  A task that is still awaiting its extraction
\* call has no cell of its own in the store, a signaled token stays signaled,
\* and from the moment the token of run r is signaled no cell returned to run
\* r enters the store: the result of a task that resolves after stop() is
\* never merged.
C1_CancellationDiscards ==
    /\ [](\A r \in 1..Len(runs) : PendingKeys(r) \cap CellsOf(results, r) = {})
    /\ [][\A r \in 1..Len(runs) :
            runs[r].aborted =>
                /\ runs'[r].aborted
                /\ CellsOf(results', r) \subseteq CellsOf(results, r)]_vars

\* stop() has signaled the token of a run while one of its extraction calls
\* is outstanding and another task of the run has already merged its cell.
C1_Witness ==
    \E r \in 1..Len(runs) :
        /\ Unfinished(r) /\ runs[r].aborted /\ HasPending(r)
        /\ abortControllerRef = r
        /\ CellsOf(results, r) # {}

\* C2: Merge isolation.  A step that merges the cell of run r at key p puts
\* exactly that cell there and leaves every other entry of the store, of the
\* same document or of another, as it was.
C2_MergeIsolation ==
    [][\A r \in 1..Len(runs) : \A p \in DocIds \X ColIds :
          (p \in CellsOf(results', r) /\ p \notin CellsOf(results, r)) =>
              /\ results'[p[1]][p[2]] = NewCell(r)
              /\ \A q \in (DocIds \X ColIds) \ {p} :
                    /\ HasCell(results', q[1], q[2]) <=> HasCell(results, q[1], q[2])
                    /\ HasCell(results, q[1], q[2]) =>
                          results'[q[1]][q[2]] = results[q[1]][q[2]]]_vars

\* Two tasks of one run for the same document and different columns, and a
\* task for another document, have all merged and all cells are there.
C2_Witness ==
    \E r \in 1..Len(runs) : \E d \in DocIds : \E c1, c2 \in ColIds :
        /\ c1 # c2
        /\ {<<d, c1>>, <<d, c2>>} \subseteq CellsOf(results, r)
        /\ \E p \in CellsOf(results, r) : p[1] # d

\* C3: At most one run is effective.  A run with an unsignaled token and
\* unsettled tasks is the most recently started run and the one the
\* active-token reference names; a step that starts a run leaves every
\* earlier run signaled or returned; and no cell of an earlier run enters the
\* store once a newer run exists.
C3_OneEffectiveRun ==
    /\ [](\A r \in 1..Len(runs) :
            (Unfinished(r) /\ ~runs[r].aborted) =>
                (abortControllerRef = r /\ r = Len(runs)))
    /\ [][/\ Starts => \A r \in 1..Len(runs) :
                          runs'[r].aborted \/ runs'[r].finished
          /\ \A r \in 1..Len(runs) :
                r < Len(runs) => CellsOf(results', r) \subseteq CellsOf(results, r)]_vars

\* A run was started while the previous one still had calls outstanding.
C3_Witness ==
    /\ Len(runs) = 2
    /\ Unfinished(1) /\ HasPending(1) /\ runs[1].aborted
    /\ Unfinished(2) /\ ~runs[2].aborted /\ abortControllerRef = 2

\* C4: A superseded run's cleanup does not clobber the newer run.  The final
\* step of a run that is not the most recently started one leaves
\* isProcessing, the active-token reference and every column unchanged; a
\* final step that clears the reference or the flag is the final step of the
\* most recently started run.
C4_SupersededCleanup ==
    [][\A r \in 1..Len(runs) :
          Finishes(r) =>
              /\ r < Len(runs) =>
                    /\ isProcessing' = isProcessing
                    /\ abortControllerRef' = abortControllerRef
                    /\ columns' = columns
              /\ (abortControllerRef' # abortControllerRef
                  \/ isProcessing' # isProcessing) => r = Len(runs)]_vars

\* A superseded run is about to execute its final step (one call is left
\* outstanding) while the newer run is active.
C4_Witness ==
    /\ Len(runs) = 2
    /\ Unfinished(1) /\ runs[1].aborted /\ Cardinality(PendingKeys(1)) = 1
    /\ Unfinished(2) /\ ~runs[2].aborted
    /\ isProcessing /\ abortControllerRef = 2
    /\ \E i \in 1..Len(columns) : columns[i].status = "extracting"

\* The keys of the task list of the run a start step creates.
NewTaskKeys ==
    {<<runs'[Len(runs')].tasks[k].doc, runs'[Len(runs')].tasks[k].col>> :
        k \in 1..Len(runs'[Len(runs')].tasks)}

ColumnIds == {columns[i].id : i \in 1..Len(columns)}

\* C5: Planner exactness.  The task list of a run started with
\* overwrite=false over the documents D and the columns C is exactly the
\* pairs of D x C for which the store, as it is when the run is started,
\* holds no cell, each once; the task list of a run started with
\* overwrite=true (the re-run over the selected documents) is all of D x C,
\* each once.
C5_PlannerExactness ==
    [][/\ handleRunAnalysis =>
            /\ NewTaskKeys = {p \in SeqRange(documents) \X ColumnIds :
                                 ~HasCell(results, p[1], p[2])}
            /\ Len(runs'[Len(runs')].tasks) = Cardinality(NewTaskKeys)
       /\ handleRerunSelected =>
            /\ NewTaskKeys = (SeqRange(documents) \cap selectedDocIds) \X ColumnIds
            /\ Len(runs'[Len(runs')].tasks) = Cardinality(NewTaskKeys)]_vars

\* A run was started with overwrite=false while the store held the cell of one
\* column of a document and not the other: only the missing pair is a task.
C5_Witness ==
    /\ Len(runs) = 2 /\ Unfinished(2) /\ ~runs[2].aborted
    /\ \E d \in SeqRange(documents) : \E c1, c2 \in ColumnIds :
          /\ <<d, c1>> \in CellsOf(results, 1)
          /\ <<d, c2>> \in PendingKeys(2)
          /\ <<d, c1>> \notin PendingKeys(2)
          /\ \A k \in 1..Len(runs[2].tasks) : runs[2].tasks[k].st = "pending"

\* C6: Natural completion.  When the last task of a run settles and the
\* run's token is unsignaled, every column of the run's target set that is
\* still listed has status completed after that step, whether the task
\* succeeded or failed; the same holds for a run that has no task to dispatch.
C6_NaturalCompletion ==
    [][/\ \A r \in 1..Len(runs) :
            (Finishes(r) /\ ~runs[r].aborted) =>
                \A i \in 1..Len(columns') :
                    columns'[i].id \in SeqRange(runs[r].colsToProcess) =>
                        columns'[i].status = "completed"
       /\ (Starts /\ runs'[Len(runs')].finished) =>
            \A i \in 1..Len(columns') : columns'[i].status = "completed"]_vars

\* A run has completed naturally although a call failed: both columns are
\* completed and a pair of a listed document has no cell.
C6_Witness ==
    /\ Len(runs) = 1 /\ runs[1].finished
    /\ Len(columns) = MaxCols /\ Len(documents) = MaxDocs
    /\ \A i \in 1..Len(columns) : columns[i].status = "completed"
    /\ CellsOf(results, 1) # {}
    /\ \E d \in SeqRange(documents) : \E c \in ColumnIds : ~HasCell(results, d, c)

\* Run r was cancelled, is the run the active-token reference names (no
\* newer run was started) and has none of its cells in the store.
StoppedWithNothingMerged(r) ==
    /\ Unfinished(r) /\ runs[r].aborted
    /\ abortControllerRef = r
    /\ CellsOf(results, r) = {}

\* C7: Stop before any task resolves.  From a state in which a run is
\* stopped with none of its cells merged and no newer run is started, no step
\* adds an entry to the store (an empty store stays empty), and the step in
\* which the last in-flight task settles turns every column that is at
\* extracting to idle and turns no column to completed.
C7_StopBeforeAnyResolve ==
    [][\A r \in 1..Len(runs) :
          (StoppedWithNothingMerged(r) /\ ~Starts) =>
              /\ Entries(results') \subseteq Entries(results)
              /\ Finishes(r) =>
                    /\ Len(columns') = Len(columns)
                    /\ \A i \in 1..Len(columns) :
                          /\ columns'[i].id = columns[i].id
                          /\ columns[i].status = "extracting" =>
                                columns'[i].status = "idle"
                          /\ columns'[i].status = "completed" =>
                                columns[i].status = "completed"]_vars

\* The only run was stopped and has returned: no column was ever removed, all
\* columns are idle and the store is empty.
C7_Witness ==
    /\ Len(runs) = 1 /\ runs[1].finished
    /\ abortControllerRef = Null /\ ~isProcessing
    /\ Len(columns) = MaxCols /\ nextColId = MaxCols
    /\ Len(documents) = MaxDocs
    /\ \A i \in 1..Len(columns) : columns[i].status = "idle"
    /\ results = <<>>

\* C8: stop() on an active run.  The step signals the token of the run the
\* reference names and turns isProcessing off while the run's outstanding
\* calls stay outstanding; it changes neither the store nor any column; and
\* while a cancelled run that is still referenced has not returned and no run
\* is started, a listed column that is at extracting stays at extracting.
C8_StopFrame ==
    [][/\ handleStopExtraction =>
            /\ runs'[abortControllerRef].aborted
            /\ ~isProcessing'
            /\ runs'[abortControllerRef].tasks = runs[abortControllerRef].tasks
            /\ runs'[abortControllerRef].finished = runs[abortControllerRef].finished
            /\ results' = results
            /\ columns' = columns
       /\ \A r \in 1..Len(runs) :
            (Unfinished(r) /\ runs[r].aborted /\ abortControllerRef = r
                /\ ~Finishes(r) /\ ~Starts) =>
                \A i \in 1..Len(columns) : \A j \in 1..Len(columns') :
                    (columns'[j].id = columns[i].id
                        /\ columns[i].status = "extracting") =>
                        columns'[j].status = "extracting"]_vars

\* stop() has acted on a run that had merged a cell: the token is signaled,
\* isProcessing is off, a call is outstanding, the cell is kept and the
\* columns are still at extracting.
C8_Witness ==
    /\ abortControllerRef # Null
    /\ runs[abortControllerRef].aborted /\ HasPending(abortControllerRef)
    /\ ~isProcessing
    /\ CellsOf(results, abortControllerRef) # {}
    /\ Len(columns) = MaxCols
    /\ \A i \in 1..Len(columns) : columns[i].status = "extracting"

\* C9: Failure isolation.  The step in which an extraction call of run r
\* fails leaves the store, the token of the run and every other task of the
\* run as they are; if it is the last task to settle and the token is
\* unsignaled the run executes its normal final step (target columns
\* completed, run inactive); and a call of a run with an unsignaled token
\* that resolves with a cell has the cell merged whatever happened to the
\* other tasks.
C9_FailureIsolation ==
    [][\A r \in 1..Len(runs) : \A k \in 1..Len(runs[r].tasks) :
          /\ TaskSettles(r, k, FALSE) =>
                /\ results' = results
                /\ ~Finishes(r) =>
                      /\ runs'[r].aborted = runs[r].aborted
                      /\ \A j \in 1..Len(runs[r].tasks) :
                            j # k => runs'[r].tasks[j] = runs[r].tasks[j]
                /\ Finishes(r) => \A j \in 1..Len(runs[r].tasks) :
                                      j # k => runs[r].tasks[j].st = "settled"
                /\ (Finishes(r) /\ ~runs[r].aborted) =>
                      /\ ~isProcessing' /\ abortControllerRef' = Null
                      /\ \A i \in 1..Len(columns') :
                            columns'[i].id \in SeqRange(runs[r].colsToProcess) =>
                                columns'[i].status = "completed"
          /\ (TaskSettles(r, k, TRUE) /\ ~runs[r].aborted) =>
                <<runs[r].tasks[k].doc, runs[r].tasks[k].col>> \in CellsOf(results', r)]_vars

\* One call of the only run failed and the other calls succeeded: the run has
\* returned with both columns completed, nothing was ever removed, and one
\* pair of a document that has a cell of the run has none.
C9_Witness ==
    /\ Len(runs) = 1 /\ runs[1].finished /\ ~isProcessing
    /\ Len(columns) = MaxCols /\ nextColId = MaxCols
    /\ \A i \in 1..Len(columns) : columns[i].status = "completed"
    /\ \E d \in SeqRange(documents) : \E c1, c2 \in ColumnIds :
          /\ <<d, c1>> \in CellsOf(results, 1)
          /\ ~HasCell(results, d, c2)

----------------------------------------------------------------------------
\* The entries of document d: every (column, cell) the store holds for it.
EntriesOfDoc(res, d) ==
    IF d \in DOMAIN res THEN {<<c, res[d][c]>> : c \in DOMAIN res[d]} ELSE {}

\* The documents of the tasks of run r.
TaskDocs(rs, r) == {rs[r].tasks[k].doc : k \in 1..Len(rs[r].tasks)}

\* A task of run r settles in this step (and the run may execute its final step).
Settles(r) ==
    /\ Len(runs') = Len(runs)
    /\ (Finishes(r) \/ runs'[r].tasks # runs[r].tasks)

\* C11: Re-run scope.  The step that triggers a re-run over the selected
\* documents S leaves the entries of every document outside S as they are and
\* gives the run tasks for documents of S only; a run never gains a task; and
\* a step in which a task of a run settles, or the run executes its final
\* step, leaves the entries of every document that is not a document of the
\* run's tasks as they are.  So from trigger to return the re-run inserts,
\* removes and changes nothing outside S.
C11_RerunScope ==
    [][/\ handleRerunSelected =>
            /\ \A d \in DocIds \ selectedDocIds :
                  EntriesOfDoc(results', d) = EntriesOfDoc(results, d)
            /\ \A p \in NewTaskKeys : p[1] \in selectedDocIds
       /\ \A r \in 1..Len(runs) :
            /\ TaskDocs(runs', r) \subseteq TaskDocs(runs, r)
            /\ Settles(r) =>
                  \A d \in DocIds \ TaskDocs(runs, r) :
                      EntriesOfDoc(results', d) = EntriesOfDoc(results, d)]_vars

\* A re-run over S = {A} has returned: both cells of A are cells of the
\* re-run, both cells of the unselected document B are still the cells of the
\* first run, and no document or column was ever removed.
C11_Witness ==
    /\ Len(runs) = 2 /\ runs[2].finished
    /\ Len(documents) = MaxDocs /\ nextDocId = MaxDocs
    /\ Len(columns) = MaxCols /\ nextColId = MaxCols
    /\ \E a, b \in SeqRange(documents) :
          /\ a # b
          /\ selectedDocIds = {a}
          /\ \A c \in ColumnIds : <<a, c>> \in CellsOf(results, 2)
          /\ \A c \in ColumnIds : <<b, c>> \in CellsOf(results, 1)

\* The keys of all tasks of run r, settled or not.
TaskKeys(r) ==
    {<<runs[r].tasks[k].doc, runs[r].tasks[k].col>> : k \in 1..Len(runs[r].tasks)}

\* C12: Re-run recomputation.  The step that triggers a re-run leaves no
\* entry of a selected document in the store and gives the run one task for
\* every pair of selected listed document and listed column, whatever the
\* store held; and when a run whose token is unsignaled executes its final
\* step and every call has resolved with a cell, every pair of its task list
\* whose document and column are still listed holds the cell of this run.
C12_RerunRecomputes ==
    [][/\ handleRerunSelected =>
            /\ \A d \in selectedDocIds : EntriesOfDoc(results', d) = {}
            /\ NewTaskKeys = (SeqRange(documents) \cap selectedDocIds) \X ColumnIds
            /\ runs'[Len(runs')].tasks # <<>> =>
                  \A k \in 1..Len(runs'[Len(runs')].tasks) :
                      runs'[Len(runs')].tasks[k].st = "pending"
       /\ \A r \in 1..Len(runs) :
            (Finishes(r) /\ ~runs[r].aborted) =>
                \A p \in TaskKeys(r) :
                    (p[1] \in SeqRange(documents) /\ p[2] \in ColumnIds) =>
                        p \in CellsOf(results', r)]_vars

\* A re-run over S = {A} has completed: both cells of A are cells of the
\* re-run, and the unselected document B still lacks the cell the superseded
\* first run never merged (a run over all documents would have filled it).
C12_Witness ==
    /\ Len(runs) = 2 /\ runs[1].finished /\ runs[2].finished
    /\ Len(documents) = MaxDocs /\ nextDocId = MaxDocs
    /\ Len(columns) = MaxCols /\ nextColId = MaxCols
    /\ \A i \in 1..Len(columns) : columns[i].status = "completed"
    /\ \E a, b \in SeqRange(documents) : \E c1, c2 \in ColumnIds :
          /\ a # b /\ c1 # c2
          /\ selectedDocIds = {a}
          /\ \A c \in ColumnIds : <<a, c>> \in CellsOf(results, 2)
          /\ <<b, c1>> \in CellsOf(results, 1)
          /\ ~HasCell(results, b, c2)

\* The store holds a cell for every pair of listed document and listed column.
FullStore ==
    \A d \in SeqRange(documents) : \A c \in ColumnIds : HasCell(results, d, c)

\* C13: Idempotence.  A run started with overwrite=false while the store
\* holds a cell for every pair of listed document and listed column has no
\* task, returns in the same step, and leaves the store as it was.
C13_Idempotence ==
    [][(handleRunAnalysis /\ FullStore) =>
          /\ NewTaskKeys = {}
          /\ runs'[Len(runs')].finished
          /\ results' = results]_vars

\* A second run over a complete grid has returned: all cells are still the
\* cells of the first run and nothing was ever removed.
C13_Witness ==
    /\ Len(runs) = 2 /\ runs[1].finished /\ runs[2].finished
    /\ ~isProcessing /\ abortControllerRef = Null
    /\ Len(documents) = MaxDocs /\ nextDocId = MaxDocs
    /\ Len(columns) = MaxCols /\ nextColId = MaxCols
    /\ \A d \in SeqRange(documents) : \A c \in ColumnIds :
          <<d, c>> \in CellsOf(results, 1)

\* C14: At most one task per key.  In every state, the task list of a run
\* has no two tasks with the same (document id, column id).
C14_DistinctTaskKeys ==
    \A r \in 1..Len(runs) : \A j, k \in 1..Len(runs[r].tasks) :
        j # k =>
            <<runs[r].tasks[j].doc, runs[r].tasks[j].col>>
                # <<runs[r].tasks[k].doc, runs[r].tasks[k].col>>

\* A run over two documents and two columns has all four calls outstanding.
C14_Witness ==
    \E r \in 1..Len(runs) :
        /\ Len(runs[r].tasks) = MaxDocs * MaxCols
        /\ Cardinality(PendingKeys(r)) = MaxDocs * MaxCols
        /\ Cardinality(TaskDocs(runs, r)) = MaxDocs

\* const selectedDocs = documents.filter(d => selectedDocIds.has(d.id))
SelectedDocs == SelectSeq(documents, LAMBDA d : d \in selectedDocIds)

\* C15: Empty input is a no-op.  A run or re-run that is triggered while its
\* target document list or its target column list is empty creates no
\* cancellation token, leaves the active flag off, changes no column status
\* and leaves the store unchanged.
C15_EmptyInputIsNoOp ==
    [][/\ (handleRunAnalysis /\ (Len(documents) = 0 \/ Len(columns) = 0)) =>
            UNCHANGED <<runs, isProcessing, abortControllerRef, columns, results>>
       /\ (handleRerunSelected /\ (Len(SelectedDocs) = 0 \/ Len(columns) = 0)) =>
            UNCHANGED <<runs, isProcessing, abortControllerRef, columns, results>>]_vars

\* C16: Deletion cascade.  Removing a document takes it, and only it, out of
\* the document list, leaves no entry of it in the store, leaves the entries
\* of every other document as they are, and clears the inspected cell and
\* the previewed document when they belong to the removed document.
C16_DeletionCascade ==
    [][handleRemoveDoc =>
          \E docId \in SeqRange(documents) :
              /\ documents' = SelectSeq(documents, LAMBDA d : d # docId)
              /\ docId \notin SeqRange(documents')
              /\ EntriesOfDoc(results', docId) = {}
              /\ \A d \in DocIds \ {docId} :
                    EntriesOfDoc(results', d) = EntriesOfDoc(results, d)
              /\ (selectedCell # NoCell /\ selectedCell[1] = docId) =>
                    selectedCell' = NoCell
              /\ previewDocId = docId => previewDocId' = Null]_vars

\* A document was removed: it is gone from the list and from the store, the
\* other document keeps both of its cells, and nothing is inspected.
C16_Witness ==
    /\ nextDocId = MaxDocs /\ Len(documents) = MaxDocs - 1
    /\ DOMAIN results = SeqRange(documents)
    /\ Len(columns) = MaxCols
    /\ \A d \in SeqRange(documents) : \A c \in ColumnIds : HasCell(results, d, c)
    /\ selectedCell = NoCell /\ previewDocId = Null
    /\ \A r \in 1..Len(runs) : runs[r].finished

\* C17: Column deletion.  Deleting a column takes it, and only it, out of the
\* column list, removes its entry from every document of the store, leaves
\* every entry of every other column as it is, and clears the inspected cell
\* when it belongs to the deleted column.
C17_ColumnDeletion ==
    [][handleDeleteColumn =>
          \E colId \in ColumnIds :
              /\ columns' = SelectSeq(columns, LAMBDA c : c.id # colId)
              /\ \A d \in DocIds :
                    EntriesOfDoc(results', d) =
                        {e \in EntriesOfDoc(results, d) : e[1] # colId}
              /\ (selectedCell # NoCell /\ selectedCell[2] = colId) =>
                    selectedCell' = NoCell]_vars

\* A column was deleted: both documents keep their cell of the other column
\* and hold nothing else, and nothing is inspected.
C17_Witness ==
    /\ nextColId = MaxCols /\ Len(columns) = MaxCols - 1
    /\ Len(documents) = MaxDocs /\ nextDocId = MaxDocs
    /\ \A d \in SeqRange(documents) :
          d \in DOMAIN results /\ DOMAIN results[d] = ColumnIds
    /\ selectedCell = NoCell
    /\ \A r \in 1..Len(runs) : runs[r].finished

\* C18: Cells are whole.  In every state, every entry of the store carries
\* the fields of a cell returned by an extraction call.
C18_CellsAreWhole ==
    \A d \in DOMAIN results : \A c \in DOMAIN results[d] :
        results[d][c].value # Undefined

\* The keys at which the store holds an entry.
Keys(res) == {p \in DocIds \X ColIds : HasCell(res, p[1], p[2])}

\* C19: Result Store invariant, as the steps that keep it.  An entry appears
\* at a pair only in a step in which a task for that pair, of a run whose
\* token is unsignaled, resolves with a cell; such a step does put the entry
\* there; and an entry disappears only by removal of its document, removal
\* of its column, an overwriting re-run of its document, or the clearing of
\* the project.
C19_StoreInvariant ==
    [][/\ \A p \in Keys(results') \ Keys(results) :
            \E r \in 1..Len(runs) :
                /\ p \in PendingKeys(r) /\ ~runs[r].aborted /\ Settles(r)
                /\ p \in CellsOf(results', r)
       /\ \A r \in 1..Len(runs) : \A k \in 1..Len(runs[r].tasks) :
            (TaskSettles(r, k, TRUE) /\ ~runs[r].aborted) =>
                <<runs[r].tasks[k].doc, runs[r].tasks[k].col>> \in Keys(results')
       /\ \A p \in Keys(results) \ Keys(results') :
            \/ handleRemoveDoc /\ p[1] \notin SeqRange(documents')
            \/ handleDeleteColumn /\ p[2] \notin SeqRange(ColumnIdsOf(columns'))
            \/ handleRerunSelected /\ p[1] \in selectedDocIds
            \/ handleClearAll]_vars

\* C20: Start is a pure status overlay.  A call of processExtraction with
\* the target columns cs leaves the column list and every column id as they
\* are; when the run has tasks, every target column is at extracting after
\* the call, whatever its status was, and every other column keeps its
\* status.  When the run has no task its final step follows in the same
\* step: the target columns are completed and the others are changed only
\* by the reset of extracting to idle.
C20_StartOverlay ==
    [][\A ds \in SUBSET SeqRange(documents) :
       \A cs \in SUBSET SeqRange(ColumnIdsOf(columns)) :
       \A forceOverwrite \in BOOLEAN :
          StartOn(ds, cs, forceOverwrite) =>
              /\ Len(columns') = Len(columns)
              /\ \A i \in 1..Len(columns) :
                    /\ columns'[i].id = columns[i].id
                    /\ columns'[i].status =
                          IF ~runs'[Len(runs')].finished
                          THEN IF columns[i].id \in cs
                               THEN "extracting" ELSE columns[i].status
                          ELSE IF columns[i].id \in cs THEN "completed"
                               ELSE IF columns[i].status = "extracting"
                                    THEN "idle" ELSE columns[i].status]_vars

\* A run over the first column only was started while the cancelled earlier
\* run over that column still had a call outstanding: the first column is at
\* extracting and the second column, which no run targeted, is still idle.
C20_Witness ==
    /\ Len(runs) = 2 /\ Len(columns) = MaxCols
    /\ Unfinished(1) /\ runs[1].aborted /\ HasPending(1)
    /\ Unfinished(2) /\ ~runs[2].aborted /\ abortControllerRef = 2
    /\ runs[1].colsToProcess = <<columns[1].id>>
    /\ runs[2].colsToProcess = <<columns[1].id>>
    /\ columns[1].status = "extracting"
    /\ columns[2].status = "idle"

----------------------------------------------------------------------------
\* The number of extraction calls of run r that are outstanding.
Outstanding(r) ==
    Cardinality({k \in 1..Len(runs[r].tasks) : runs[r].tasks[k].st = "pending"})

\* C21: A run is finalized only after its whole fan-out has settled.  The
\* step in which a run executes its final step is the step in which its last
\* outstanding call settles: before it at most that one call is outstanding.
\* While more than one call of the run the reference names is outstanding,
\* only the start of another run changes the reference; and stop() leaves
\* every outstanding call outstanding.
C21_FinalAfterFanOut ==
    [][/\ \A r \in 1..Len(runs) :
            /\ Finishes(r) => Outstanding(r) <= 1
            /\ (abortControllerRef = r /\ Outstanding(r) > 1 /\ ~Starts) =>
                  abortControllerRef' = r
       /\ handleStopExtraction =>
            \A r \in 1..Len(runs) : runs'[r].tasks = runs[r].tasks]_vars

\* A stopped run has discarded or lost two of its four calls and waits for
\* the other two: the columns are still at extracting and the reference
\* still names the run.
C21_Witness ==
    \E r \in 1..Len(runs) :
        /\ runs[r].aborted /\ abortControllerRef = r /\ ~isProcessing
        /\ Len(runs[r].tasks) = MaxDocs * MaxCols /\ Outstanding(r) = 2
        /\ CellsOf(results, r) = {}
        /\ \A i \in 1..Len(columns) : columns[i].status = "extracting"

\* C23: The status error is unreachable.  In every state no column has the
\* status error.
C23_NoErrorStatus ==
    \A i \in 1..Len(columns) : columns[i].status \in {"idle", "extracting", "completed"}

\* After a completed run and a stopped run that has drained, one column is
\* completed and the other idle, and a pair is without a cell.
C23_Witness ==
    /\ Len(runs) = MaxRuns /\ \A r \in 1..Len(runs) : runs[r].finished
    /\ Len(columns) = MaxCols
    /\ \E i, j \in 1..Len(columns) :
          columns[i].status = "idle" /\ columns[j].status = "completed"
    /\ \E d \in SeqRange(documents) : \E c \in ColumnIds : ~HasCell(results, d, c)

\* C25: Removing a document or a column does not cancel the run.  The step
\* leaves every run record (token, tasks), the active flag and the reference
\* as they are; afterwards a call of an unsignaled run that resolves has its
\* cell merged, and the final step of an unsignaled run marks the listed
\* target columns completed and turns the run inactive.
C25_RemovalDoesNotCancel ==
    [][/\ (handleRemoveDoc \/ handleDeleteColumn) =>
            /\ runs' = runs
            /\ isProcessing' = isProcessing
            /\ abortControllerRef' = abortControllerRef
       /\ \A r \in 1..Len(runs) :
            (Settles(r) /\ ~runs[r].aborted) =>
                /\ \A p \in Keys(results') \ Keys(results) : p \in CellsOf(results', r)
                /\ Finishes(r) =>
                      /\ ~isProcessing' /\ abortControllerRef' = Null
                      /\ \A i \in 1..Len(columns') :
                            columns'[i].id \in SeqRange(runs[r].colsToProcess) =>
                                columns'[i].status = "completed"]_vars

\* A run that was started over two documents is still active after one of
\* them was removed, and has merged a cell of the remaining document since.
C25_Witness ==
    \E r \in 1..Len(runs) :
        /\ ~runs[r].aborted /\ isProcessing /\ abortControllerRef = r
        /\ Cardinality(TaskDocs(runs, r)) = MaxDocs
        /\ Len(documents) = MaxDocs - 1
        /\ HasPending(r)
        /\ \E p \in CellsOf(results, r) : p[1] \in SeqRange(documents)

\* The store holds an entry of a document or of a column that is not listed.
Orphan(res) ==
    \E p \in Keys(res) : p[1] \notin SeqRange(documents) \/ p[2] \notin ColumnIds

\* C26: Resurrection.  A call of an unsignaled run that resolves with a cell
\* after its document or its column was removed has the cell merged all the
\* same, so the store then holds an entry of an entity that is not listed.
C26_Resurrection ==
    [][\A r \in 1..Len(runs) : \A k \in 1..Len(runs[r].tasks) :
          (/\ TaskSettles(r, k, TRUE) /\ ~runs[r].aborted
           /\ \/ runs[r].tasks[k].doc \notin SeqRange(documents)
              \/ runs[r].tasks[k].col \notin ColumnIds) =>
              /\ <<runs[r].tasks[k].doc, runs[r].tasks[k].col>> \in CellsOf(results', r)
              /\ \E p \in Keys(results') :
                    p[1] \notin SeqRange(documents') \/
                    p[2] \notin SeqRange(ColumnIdsOf(columns'))]_vars

\* The store holds the cell of a removed document next to the cells of a
\* listed one, all returned to the same run, and every column is listed.
C26_Witness ==
    /\ Len(documents) = MaxDocs - 1 /\ nextDocId = MaxDocs
    /\ Len(columns) = MaxCols /\ nextColId = MaxCols
    /\ \E p \in CellsOf(results, 1) : p[1] \notin SeqRange(documents)
    /\ \E p \in CellsOf(results, 1) : p[1] \in SeqRange(documents)
    /\ Orphan(results)

\* C30: Active flag and token agree.  In every state isProcessing is true
\* exactly when the reference names a run whose token is unsignaled.
C30_FlagAgreesWithToken ==
    isProcessing <=> (abortControllerRef # Null /\ ~runs[abortControllerRef].aborted)

\* Clear-all has acted on an active run: the flag is off, the reference still
\* names the run, whose token is signaled and whose calls are outstanding.
C30_Witness ==
    /\ abortControllerRef # Null /\ ~isProcessing
    /\ runs[abortControllerRef].aborted /\ HasPending(abortControllerRef)
    /\ documents = <<>> /\ columns = <<>> /\ results = <<>>

\* The identity and the definition of every listed column, in order.
ColumnDefs(cols) == [i \in 1..Len(cols) |-> <<cols[i].id, cols[i].prompt>>]

\* C24: The run controller changes nothing of a column but its status.  No
\* step of a run (its start, the settling of one of its calls, its final step,
\* its cancellation) adds or removes a column or changes the id or the
\* definition of one: a column the user created, edited or deleted while the
\* run was in flight is after the final step as the user left it.
C24_OnlyStatus ==
    [][(Starts \/ handleStopExtraction \/ \E r \in 1..Len(runs) : Settles(r)) =>
          ColumnDefs(columns') = ColumnDefs(columns)]_vars

\* The last call of the only run is outstanding; its column was edited and is
\* at extracting, and the user has created a second column since the start.
C24_Witness ==
    /\ Len(runs) = 1 /\ ~runs[1].aborted /\ Outstanding(1) = 1
    /\ Len(columns) = 2
    /\ columns[1].status = "extracting" /\ columns[1].prompt = MaxPrompt
    /\ columns[2].status = "idle"

\* Run r has just been started over the documents D and the columns C on an
\* empty store without overwrite: all of D x C is dispatched, nothing settled.
StartedOnEmpty(r, D, C) ==
    /\ r <= Len(runs) /\ ~runs[r].finished /\ ~runs[r].aborted
    /\ results = <<>>
    /\ SeqRange(runs[r].colsToProcess) = C
    /\ TaskKeys(r) = D \X C /\ PendingKeys(r) = D \X C

\* Run r has returned, the store holds the cell returned to r at every pair
\* of D x C and nothing else, and every listed column of C is completed.
FullSuccess(r, D, C) ==
    /\ r <= Len(runs) /\ runs[r].finished
    /\ Keys(results) = D \X C /\ CellsOf(results, r) = D \X C
    /\ \A i \in 1..Len(columns) : columns[i].id \in C => columns[i].status = "completed"

\* C22: Full success.  A run started over D and C on an empty store with
\* overwrite=false that is not cancelled, from which nothing is removed and
\* all of whose calls resolve with a cell, leads to a state in which the
\* store holds exactly the cells of D x C, each the one returned for its
\* pair, and every column of C is completed.
C22_FullSuccess ==
    \A r \in RunIds : \A D \in SUBSET DocIds \ {{}} : \A C \in SUBSET ColIds \ {{}} :
        StartedOnEmpty(r, D, C) ~> FullSuccess(r, D, C)

\* The first run has returned with a cell for each of the MaxDocs x MaxCols
\* pairs and both columns completed.
C22_Witness ==
    /\ FullSuccess(1, DocIds, ColIds)
    /\ Len(columns) = MaxCols /\ Len(documents) = MaxDocs /\ ~isProcessing

\* C27: No stuck extracting state.  In every state in which every run has
\* returned (no call outstanding, no final step pending) no column has the
\* status extracting.
C27_NoStuckExtracting ==
    (\A r \in 1..Len(runs) : runs[r].finished) =>
        \A i \in 1..Len(columns) : columns[i].status # "extracting"

\* C29: Project round trip.  The file that handleSaveProject writes parses
\* back to the project that was saved (the same Result Store: document keys,
\* column keys, cells and their review status; the same columns, documents,
\* name and selected model), and handleLoadProject puts exactly the parsed
\* project into the state.
C29_RoundTrip ==
    [][/\ handleSaveProject => ParseProject(projectFile') = SavedProject
       /\ handleLoadProject =>
            /\ results' = ParseProject(projectFile).results
            /\ columns' = ParseProject(projectFile).columns
            /\ documents' = ParseProject(projectFile).documents
            /\ projectName' = ParseProject(projectFile).name
            /\ selectedModel' = ParseProject(projectFile).selectedModel]_vars

\* A project with a verified cell, an unreviewed cell, another name and
\* another model is in the state as it is in the file, and the selection of
\* its documents is gone: the project has been loaded.
C29_Witness ==
    /\ projectFile # NoFile
    /\ ParseProject(projectFile) = SavedProject
    /\ Len(documents) = MaxDocs /\ selectedDocIds = {}
    /\ projectName # "Untitled Project" /\ selectedModel # MODELS[1]
    /\ \E p, q \in Keys(results) :
          /\ results[p[1]][p[2]].status = "verified"
          /\ results[q[1]][q[2]].status = "unreviewed"

----------------------------------------------------------------------------
(* A reader of CSV text: fields are separated by commas, records by line
   breaks; a field that starts with a quote runs to the next quote that is
   not doubled, and a doubled quote in it stands for one quote. *)

\* The quoted field whose opening quote is before position i.
RECURSIVE ReadQuoted(_, _)
ReadQuoted(text, i) ==
    IF i > Len(text) THEN [text |-> <<>>, next |-> i]
    ELSE IF text[i] = Quote
         THEN IF i + 1 <= Len(text) /\ text[i + 1] = Quote
              THEN LET rest == ReadQuoted(text, i + 2)
                   IN [text |-> <<Quote>> \o rest.text, next |-> rest.next]
              ELSE [text |-> <<>>, next |-> i + 1]
         ELSE LET rest == ReadQuoted(text, i + 1)
              IN [text |-> <<text[i]>> \o rest.text, next |-> rest.next]

\* The unquoted field that starts at position i.
RECURSIVE ReadPlain(_, _)
ReadPlain(text, i) ==
    IF i > Len(text) \/ text[i] \in {Comma, LineBreak}
    THEN [text |-> <<>>, next |-> i]
    ELSE LET rest == ReadPlain(text, i + 1)
         IN [text |-> <<text[i]>> \o rest.text, next |-> rest.next]

ReadField(text, i) ==
    IF i <= Len(text) /\ text[i] = Quote
    THEN LET f == ReadQuoted(text, i + 1)
         IN [quoted |-> TRUE, text |-> f.text, next |-> f.next]
    ELSE LET f == ReadPlain(text, i)
         IN [quoted |-> FALSE, text |-> f.text, next |-> f.next]

\* The fields of the record that starts at position i.
RECURSIVE ReadRecord(_, _)
ReadRecord(text, i) ==
    LET f == ReadField(text, i)
        field == [quoted |-> f.quoted, text |-> f.text]
    IN IF f.next <= Len(text) /\ text[f.next] = Comma
       THEN LET rest == ReadRecord(text, f.next + 1)
            IN [fields |-> <<field>> \o rest.fields, next |-> rest.next]
       ELSE [fields |-> <<field>>, next |-> f.next]

\* The records of the text from position i on.
RECURSIVE ReadRecords(_, _)
ReadRecords(text, i) ==
    LET r == ReadRecord(text, i)
    IN IF r.next <= Len(text) /\ text[r.next] = LineBreak
       THEN <<r.fields>> \o ReadRecords(text, r.next + 1)
       ELSE IF r.next > Len(text) THEN <<r.fields>>
       ELSE <<r.fields, <<>> >>

\* The value of the scenario and the text it is written as.
ExampleValue ==
    <<"H", "e", " ", "s", "a", "i", "d", " ", Quote, "h", "i", Quote>>
ExampleWritten ==
    <<Quote, "H", "e", " ", "s", "a", "i", "d", " ",
      Quote, Quote, "h", "i", Quote, Quote, Quote>>

\* C28: CSV quoting.  The exported text reads back as one record of
\* 1 + |columns| fields per listed document after the header; the field of a
\* (document, column) pair is quoted and reads back as the value of the cell,
\* quotes and commas included, or as the empty value where the store holds no
\* cell; and the value He said "hi" is written as "He said ""hi""".
C28_CsvQuoting ==
    [][handleExportCSV =>
          LET records == ReadRecords(csvContent', 1) IN
          /\ Len(records) = Len(documents) + 1
          /\ \A i \in 1..Len(documents) :
                /\ Len(records[i + 1]) = Len(columns) + 1
                /\ \A j \in 1..Len(columns) :
                      LET f == records[i + 1][j + 1]
                          d == documents[i]
                          c == columns[j].id
                      IN /\ f.quoted
                         /\ f.text = IF HasCell(results, d, c)
                                      THEN results[d][c].value ELSE <<>>
          /\ CsvField(ExampleValue) = ExampleWritten]_vars

\* The export of two documents and two columns has been written; one value
\* holds a quote, another a comma, and one pair has no cell.
C28_Witness ==
    /\ csvContent # NoFile /\ csvContent = CsvText
    /\ Len(documents) = MaxDocs /\ Len(columns) = MaxCols
    /\ \E p, q \in Keys(results) :
          /\ \E k \in 1..Len(results[p[1]][p[2]].value) :
                results[p[1]][p[2]].value[k] = Quote
          /\ \E k \in 1..Len(results[q[1]][q[2]].value) :
                results[q[1]][q[2]].value[k] = Comma
    /\ \E d \in DocIds : \E c \in ColIds : ~HasCell(results, d, c)

----------------------------------------------------------------------------
\* Every run that has not returned has its token signaled.
AllCancelled(rs) == \A r \in 1..Len(rs) : ~rs[r].finished => rs[r].aborted

\* C32: Clear-all during a run.  Clear-all signals the token of the active
\* run, turns the flag off and empties documents, columns and store, so that
\* every run still in flight is cancelled; and while the store is empty and
\* every run in flight is cancelled, a step that does not start a run leaves
\* the store empty and those runs cancelled, however their calls resolve.
C32_ClearAllDuringRun ==
    [][/\ handleClearAll =>
            /\ documents' = <<>> /\ columns' = <<>> /\ results' = <<>>
            /\ ~isProcessing'
            /\ AllCancelled(runs')
       /\ (results = <<>> /\ AllCancelled(runs) /\ ~Starts) =>
            (results' = <<>> /\ AllCancelled(runs'))]_vars

\* After clear-all during a run of four calls two of them have resolved:
\* the store is empty and no document and no column is listed.
C32_Witness ==
    \E r \in 1..Len(runs) :
        /\ runs[r].aborted /\ abortControllerRef = r /\ ~isProcessing
        /\ Len(runs[r].tasks) = MaxDocs * MaxCols /\ Outstanding(r) = 2
        /\ results = <<>>
        /\ nextDocId = MaxDocs /\ nextColId = MaxCols
        /\ Len(documents) = 0 /\ Len(columns) = 0

\* C35: The inspected cell exists.  In every state in which a cell is
\* selected for inspection the store holds a cell at the selected pair.
C35_InspectedCellExists ==
    selectedCell # NoCell => HasCell(results, selectedCell[1], selectedCell[2])

\* C36: Verify changes one field.  A step of handleVerifyCell leaves the
\* store with a cell at the inspected pair whose status is verified and whose
\* value is the one the store held there before, changes no other key of the
\* store, and leaves documents and columns as they are.
C36_VerifyOneField ==
    [][handleVerifyCell =>
          LET d == selectedCell[1]
              c == selectedCell[2]
          IN /\ HasCell(results, d, c) /\ HasCell(results', d, c)
             /\ results'[d][c].status = "verified"
             /\ results'[d][c].value = results[d][c].value
             /\ Keys(results') = Keys(results)
             /\ \A p \in Keys(results) \ {<<d, c>>} :
                   results'[p[1]][p[2]] = results[p[1]][p[2]]
             /\ documents' = documents /\ columns' = columns]_vars

\* C31: Every run terminates.  Every run that has been started executes its
\* final step at some time; and whenever the run started last has executed
\* it, isProcessing is false and the reference is null.
C31_EveryRunTerminates ==
    /\ \A r \in RunIds :
          (r <= Len(runs) /\ ~runs[r].finished) ~> (r <= Len(runs) /\ runs[r].finished)
    /\ [](Len(runs) > 0 /\ runs[Len(runs)].finished =>
             ~isProcessing /\ abortControllerRef = Null)

\* Both runs have returned, the first superseded by the second, which left a
\* cell at every pair; the flag is off and the reference null.
C31_Witness ==
    /\ Len(runs) = MaxRuns /\ \A r \in 1..Len(runs) : runs[r].finished
    /\ ~isProcessing /\ abortControllerRef = Null
    /\ CellsOf(results, MaxRuns) = DocIds \X ColIds

\* C33: Replacing the project during a run.  A step in which a run started
\* before the last load of a project settles a task or returns leaves the
\* store as the load and the later runs made it.
C33_LoadIsolatesStore ==
    [][\A r \in 1..Len(runs) :
          (r <= runsAtLoad /\ Settles(r)) => results' = results]_vars

\* C34: The re-run selection only names existing documents.  Every selected
\* document id is the id of a listed document.
C34_SelectionNamesDocuments ==
    \A d \in selectedDocIds : \E i \in 1..Len(documents) : documents[i] = d

\* The file passes the validation of the loader: its text is whole, and it
\* has a version, a name, columns, documents and results.
PassesValidation(f) ==
    /\ f # NoFile
    /\ \A i \in 1..Len(f) : Len(f[i]) = 2
    /\ \A key \in {"version", "name", "columns", "documents", "results"} :
          \E i \in 1..Len(f) : f[i][1] = key

\* C37: Load is all-or-nothing.  A load that is declined, cancelled, or made
\* with a file that cannot be parsed or does not pass validation leaves the
\* project name, the columns, the documents, the store, the selected model
\* and the selections as they are; a load that changes any of them was made
\* with a file that passes validation and installs all of that file.
C37_LoadAllOrNothing ==
    [][\A f \in PickedFiles : \A c \in BOOLEAN :
          LoadProject(f, c) =>
             IF ~PassesValidation(f) \/ ((documents # <<>> \/ columns # <<>> \/ results # <<>>) /\ ~c)
             THEN UNCHANGED <<projectName, columns, documents, results,
                              selectedModel, selectedDocIds, selectedCell, previewDocId>>
             ELSE /\ projectName' = Member(f, "name")
                  /\ Len(columns') = Len(Member(f, "columns"))
                  /\ Len(documents') = Len(Member(f, "documents"))
                  /\ results' = ParseResults(Member(f, "results"))
                  /\ selectedDocIds' = {}]_vars

\* A load has just failed while a project with a cell, a selected document
\* and a saved file was open: all of it is still there.
C37_Witness ==
    /\ loadOutcome = "failed"
    /\ projectFile # NoFile
    /\ Len(documents) = MaxDocs /\ Len(columns) > 0
    /\ selectedDocIds # {}
    /\ Keys(results) # {}

====
